---------------------------- MODULE Spec2Model ----------------------------
(***************************************************************************)
(* Model of bot.py: a Telegram bot that resolves Instagram links, replies  *)
(* with the media and caption, and keeps an activity log in PostgreSQL.    *)
(*                                                                         *)
(* Strings that the program inspects character by character (message text, *)
(* URLs, command arguments) are sequences of one-character strings.        *)
(* Updates are dispatched one at a time (the framework's default), so one  *)
(* handler is in flight at any moment; handle_message is modelled one      *)
(* external call per step, the command handlers one action each.           *)
(***************************************************************************)
EXTENDS Integers, Sequences, FiniteSets, TLC

\* ------------------------------------------------------------------ bounds
\* Number of updates the gateway delivers in one run.
MaxUpdates == 2

\* ------------------------------------------------------- program constants
DefaultLogsLimit == 50
MaxLogsLimit == 500
LinksLimit == 200
TopLimit == 10

\* Python's None where the surrounding values are strings.
None == "<None>"

\* ADMIN_IDS = [int(x.strip()) ...]: the configured admin ids.
ADMIN_IDS == {1}

\* ---------------------------------------------------------- string helpers
Min(a, b) == IF a <= b THEN a ELSE b

IsSpace(c) == c \in {" ", "\n", "\t"}

\* str.strip(): drop leading and trailing whitespace.
RECURSIVE LStrip(_)
LStrip(s) == IF s # <<>> /\ IsSpace(Head(s)) THEN LStrip(Tail(s)) ELSE s

RECURSIVE RStrip(_)
RStrip(s) ==
    IF s # <<>> /\ IsSpace(s[Len(s)]) THEN RStrip(SubSeq(s, 1, Len(s) - 1)) ELSE s

Strip(s) == RStrip(LStrip(s))

\* str.strip('/')
RECURSIVE StripSlashes(_)
StripSlashes(s) ==
    IF s # <<>> /\ Head(s) = "/" THEN StripSlashes(Tail(s))
    ELSE IF s # <<>> /\ s[Len(s)] = "/" THEN StripSlashes(SubSeq(s, 1, Len(s) - 1))
    ELSE s

\* str.split('/'): the pieces between the slashes, always at least one piece.
RECURSIVE SplitSlash(_, _)
SplitSlash(s, cur) ==
    IF s = <<>> THEN <<cur>>
    ELSE IF Head(s) = "/" THEN <<cur>> \o SplitSlash(Tail(s), <<>>)
    ELSE SplitSlash(Tail(s), Append(cur, Head(s)))

StartsAt(s, i, pat) ==
    /\ i + Len(pat) - 1 <= Len(s)
    /\ SubSeq(s, i, i + Len(pat) - 1) = pat

HTTP == <<"h", "t", "t", "p", ":", "/", "/">>
HTTPS == <<"h", "t", "t", "p", "s", ":", "/", "/">>

\* Length of the "https?://" prefix matched at position i, 0 when none.
SchemeLenAt(s, i) ==
    IF StartsAt(s, i, HTTPS) THEN Len(HTTPS)
    ELSE IF StartsAt(s, i, HTTP) THEN Len(HTTP)
    ELSE 0

\* Last index of the run of non-whitespace characters that starts at i.
RECURSIVE RunEnd(_, _)
RunEnd(s, i) ==
    IF i < Len(s) /\ ~IsSpace(s[i + 1]) THEN RunEnd(s, i + 1) ELSE i

\* URL_RE = r"(https?://[^\s]+)" tried at position i: the match, or <<>>.
MatchAt(s, i) ==
    LET p == SchemeLenAt(s, i) IN
    IF p > 0 /\ i + p <= Len(s) /\ ~IsSpace(s[i + p])
    THEN SubSeq(s, i, RunEnd(s, i + p))
    ELSE <<>>

\* URL_RE.search(text): the leftmost match, scanning from position i.
RECURSIVE SearchFrom(_, _)
SearchFrom(s, i) ==
    IF i > Len(s) THEN <<>>
    ELSE IF MatchAt(s, i) # <<>> THEN MatchAt(s, i)
    ELSE SearchFrom(s, i + 1)

\* A faulty extract_url: the rightmost match instead of the leftmost.
RECURSIVE SearchBack(_, _)
SearchBack(s, i) ==
    IF i < 1 THEN <<>>
    ELSE IF MatchAt(s, i) # <<>> /\ (i = 1 \/ IsSpace(s[i - 1])) THEN MatchAt(s, i)
    ELSE SearchBack(s, i - 1)

extract_url_last(text) == SearchBack(text, Len(text))

\* extract_url: m.group(1) if m else None (None is the empty sequence here).
extract_url(text) == SearchFrom(text, 1)


\* First index >= i of s holding a character of stop, Len(s) + 1 when none.
RECURSIVE FindFirst(_, _, _)
FindFirst(s, i, stop) ==
    IF i > Len(s) THEN Len(s) + 1
    ELSE IF s[i] \in stop THEN i
    ELSE FindFirst(s, i + 1, stop)

\* urlparse(url).path for a URL that starts with "http://" or "https://":
\* the network location runs to the first "/", "?" or "#", the path from
\* there to the first "?" or "#".
UrlPath(url) ==
    LET p == SchemeLenAt(url, 1)
        a == FindFirst(url, p + 1, {"/", "?", "#"})
        b == FindFirst(url, a, {"?", "#"})
    IN SubSeq(url, a, b - 1)

\* get_shortcode_from_url: parts[1] when the path has two parts, else None.
get_shortcode_from_url(url) ==
    LET parts == SplitSlash(StripSlashes(UrlPath(url)), <<>>) IN
    IF Len(parts) >= 2 THEN parts[2] ELSE <<>>

\* ------------------------------------------------- str.isdigit() and int()
DecimalDigits == {"0", "1", "2", "3", "4", "5", "6", "7", "8", "9"}

\* Characters with the Unicode Digit property that are no decimal digits:
\* str.isdigit() accepts them, int() rejects them.
SuperscriptDigits == {"^2"}

isdigit(s) == s # <<>> /\ \A i \in 1..Len(s) : s[i] \in DecimalDigits \cup SuperscriptDigits

DigitVal(c) ==
    CASE c = "0" -> 0 [] c = "1" -> 1 [] c = "2" -> 2 [] c = "3" -> 3 [] c = "4" -> 4
      [] c = "5" -> 5 [] c = "6" -> 6 [] c = "7" -> 7 [] c = "8" -> 8 [] c = "9" -> 9

\* int(s) raises ValueError unless every character is a decimal digit.
IntRaises(s) == s = <<>> \/ \E i \in 1..Len(s) : s[i] \notin DecimalDigits

RECURSIVE int(_)
int(s) == IF s = <<>> THEN 0 ELSE 10 * int(SubSeq(s, 1, Len(s) - 1)) + DigitVal(s[Len(s)])

\* f"{uid}" for the user ids of the model.
UidStr(uid) == CASE uid = 1 -> "1" [] uid = 2 -> "2" [] OTHER -> "?"

\* x or "": None and "" both give "".
OrEmpty(x) == IF x = None THEN "" ELSE x

\* is_admin
is_admin(user_id) == user_id \in ADMIN_IDS

\* --------------------------------------------------------------- database
\* One row of the logs table; id is the SERIAL primary key.
Row(id, user_id, username, first_name, link, media_pk, created_at) ==
    [id |-> id, user_id |-> user_id, username |-> username,
     first_name |-> first_name, link |-> link, media_pk |-> media_pk,
     created_at |-> created_at]

\* A faulty add_log: the newest row is overwritten instead of a row inserted.
add_log_overwrite(table, user_id, username, first_name, link, media_pk, now) ==
    IF table = <<>>
    THEN <<Row(1, user_id, username, first_name, link, media_pk, now)>>
    ELSE [table EXCEPT ![Len(table)] =
            Row(Len(table), user_id, username, first_name, link, media_pk, now)]

\* add_log: INSERT one row; the table is the sequence of rows in id order.
add_log(table, user_id, username, first_name, link, media_pk, now) ==
    Append(table, Row(Len(table) + 1, user_id, username, first_name, link, media_pk, now))

\* get_logs: SELECT ... ORDER BY id DESC LIMIT limit.
get_logs(table, limit) ==
    LET n == Min(limit, Len(table)) IN
    [k \in 1..n |-> table[Len(table) + 1 - k]]

\* get_links: SELECT link ... GROUP BY link ORDER BY MAX(id) DESC LIMIT limit.
MaxIdOf(table, link) ==
    CHOOSE i \in 1..Len(table) :
        table[i].link = link /\ \A j \in (i + 1)..Len(table) : table[j].link # link

RECURSIVE LinksDesc(_, _)
LinksDesc(table, i) ==
    IF i = 0 THEN <<>>
    ELSE IF MaxIdOf(table, table[i].link) = i
         THEN <<table[i].link>> \o LinksDesc(table, i - 1)
         ELSE LinksDesc(table, i - 1)

get_links(table, limit) ==
    LET all == LinksDesc(table, Len(table)) IN SubSeq(all, 1, Min(limit, Len(all)))

\* get_stats: COUNT(*), COUNT(DISTINCT user_id) and the per-user counts
\* (at most TopLimit groups, the largest first; the model keeps them as a set
\* because the order among equal counts is the database's choice).
Groups(table) ==
    { [user_id |-> table[i].user_id, username |-> table[i].username,
       first_name |-> table[i].first_name,
       cnt |-> Cardinality({j \in 1..Len(table) :
                   /\ table[j].user_id = table[i].user_id
                   /\ table[j].username = table[i].username
                   /\ table[j].first_name = table[i].first_name})]
      : i \in 1..Len(table) }

TopGroups(table) ==
    LET g == Groups(table) IN
    IF Cardinality(g) <= TopLimit THEN g
    ELSE CHOOSE t \in SUBSET g :
            /\ Cardinality(t) = TopLimit
            /\ \A x \in t, y \in g \ t : x.cnt >= y.cnt

get_stats(table) ==
    [total |-> Len(table),
     unique_users |-> Cardinality({table[i].user_id : i \in 1..Len(table)}),
     top |-> TopGroups(table)]


\* ----------------------------------------------------------------- inputs
\* Telegram users: username is optional, first_name is always present.
Users ==
    { [id |-> 1, username |-> "alice", first_name |-> "Al"],
      [id |-> 2, username |-> None, first_name |-> "Bo"] }

\* Message texts: without a URL; a bare scheme; one URL between whitespace
\* whose path has a single part; two URLs; a bare scheme followed by a URL
\* inside a word, whose second path part is empty.
Texts ==
    { <<"h", "i">>,
      <<"h", "t", "t", "p", ":", "/", "/">>,
      <<" ", "h", "t", "t", "p", ":", "/", "/", "i", "/", "a", "\n">>,
      <<"h", "t", "t", "p", "s", ":", "/", "/", "i", "/", "r", "/", "b", "?", "x", " ", "h", "t", "t", "p", ":", "/", "/", "i", "/", "p", "/", "a">>,
      <<"h", "t", "t", "p", ":", "/", "/", " ", "x", ":", "h", "t", "t", "p", "s", ":", "/", "/", "i", "/", "p", "/", "/", "a">> }

\* First arguments of /logs ("^2" stands for the one character SUPERSCRIPT
\* TWO): numbers below, at and above the default and the maximum, a number
\* with a leading zero, words, a negative number, and strings with a digit
\* that is no decimal digit.
ArgStrings ==
    { <<"0">>, <<"1">>, <<"5">>, <<"0", "5">>,
      <<"5", "0">>, <<"5", "1">>, <<"5", "0", "0">>, <<"5", "0", "1">>,
      <<"9", "9", "9">>, <<"a">>, <<"5", "a">>, <<"-", "1">>,
      <<"^2">>, <<"1", "^2">> }

\* context.args: no argument, one argument, or a second one that is ignored.
ArgLists ==
    {<<>>} \cup { <<a>> : a \in ArgStrings } \cup { <<a, <<"1">> >> : a \in {<<"5">>, <<"a">>} }

\* A media URL: the address up to its extension, the extension, and what
\* follows it (a query string, or nothing).
MediaUrl(name, ext, query) == [name |-> name, ext |-> ext, query |-> query]

NoUrl == MediaUrl("", "", "")

\* str.endswith(('.mp4', '.mov'))
EndsWithVideoExt(u) == u.query = "" /\ u.ext \in {".mp4", ".mov"}

Node(is_video, video_url, display_url) ==
    [is_video |-> is_video, video_url |-> video_url, display_url |-> display_url]

\* Posts the Instagram library can return: a photo, a video, an album (a
\* video whose address ends in ".mp4", an image, a video whose address
\* carries a query string) and an album without nodes.  pk is the library's
\* media id.
Posts ==
    { [pk |-> "pk1", is_video |-> FALSE, typename |-> "GraphImage", caption |-> "cap #t",
       video_url |-> NoUrl, url |-> MediaUrl("p1", ".jpg", ""), nodes |-> <<>>],
      [pk |-> "pk2", is_video |-> TRUE, typename |-> "GraphVideo", caption |-> None,
       video_url |-> MediaUrl("v2", ".mp4", "?sig"), url |-> MediaUrl("t2", ".jpg", ""),
       nodes |-> <<>>],
      [pk |-> "pk3", is_video |-> FALSE, typename |-> "GraphSidecar", caption |-> "",
       video_url |-> NoUrl, url |-> MediaUrl("t3", ".jpg", ""),
       nodes |-> << Node(TRUE, MediaUrl("n1", ".mp4", ""), MediaUrl("d1", ".jpg", "")),
                    Node(FALSE, NoUrl, MediaUrl("d2", ".jpg", "?sig")),
                    Node(TRUE, MediaUrl("n3", ".mp4", "?sig"), MediaUrl("d3", ".jpg", "")) >>],
      [pk |-> "pk4", is_video |-> FALSE, typename |-> "GraphSidecar", caption |-> "",
       video_url |-> NoUrl, url |-> MediaUrl("t4", ".jpg", ""), nodes |-> <<>>] }

NoPost ==
    [pk |-> "", is_video |-> FALSE, typename |-> "", caption |-> None,
     video_url |-> NoUrl, url |-> NoUrl, nodes |-> <<>>]

NoInfo == [media_type |-> "", media_urls |-> <<>>, caption |-> ""]

\* The body of get_instagram_post_info once Post.from_shortcode has returned:
\* the media type tag, the media URLs and the caption (the hashtag and mention
\* lists are computed from the caption and are not modelled).
SidecarUrls(nodes) ==
    [k \in 1..Len(nodes) |->
        IF nodes[k].is_video THEN nodes[k].video_url ELSE nodes[k].display_url]

get_instagram_post_info(p) ==
    [media_type |-> IF p.is_video THEN "video"
                    ELSE IF p.typename = "GraphSidecar" THEN "album"
                    ELSE "photo",
     media_urls |-> IF p.is_video THEN <<p.video_url>>
                    ELSE IF p.typename = "GraphSidecar" THEN SidecarUrls(p.nodes)
                    ELSE <<p.url>>,
     caption |-> OrEmpty(p.caption)]


\* ------------------------------------------------------------------ state
VARIABLES
    logs,      \* the logs table, rows in id order
    clock,     \* updates dispatched so far; datetime.utcnow() reads it
    pc,        \* position of the handler in flight, "idle" between updates
    handler,   \* the handler the current (or last) update was routed to
    user,      \* update.effective_user
    text,      \* update.message.text
    args,      \* context.args of a command
    url,       \* handle_message: url
    post,      \* get_instagram_post_info: post
    info,      \* handle_message: info
    idx,       \* handle_message: position of the album loop
    msg,       \* the "please wait" message: none, sent, edited, deleted
    err,       \* handle_message: the exception e being handled
    sent,      \* replies delivered to the chat during this update
    trace,     \* external calls made during this update, with their outcome
    queries,   \* database functions called during this update
    limit,     \* logs_cmd: limit
    escaped,   \* an exception left the handler
    hist       \* per text message: what the resolver and the database did

vars ==
    <<logs, clock, pc, handler, user, text, args, url, post, info, idx, msg, err,
      sent, trace, queries, limit, escaped, hist>>

NoUser == [id |-> 0, username |-> None, first_name |-> ""]

Reply(kind, what, data) == [kind |-> kind, what |-> what, data |-> data]

Call(ev, ok) == [ev |-> ev, ok |-> ok]

\* The table outlives the process (CREATE TABLE IF NOT EXISTS): rows written
\* by an earlier run, all stamped before this run's first update.
PriorLogs ==
    add_log(add_log(<<>>, 2, "", "Bo", HTTP \o <<"i", "/", "p", "/", "z">>, "", 0),
            1, "alice", "Al", HTTPS \o <<"i", "/", "r", "/", "b", "?", "x">>, "", 0)

Init ==
    /\ logs \in {<<>>, PriorLogs}
    /\ clock = 0
    /\ pc = "idle"
    /\ handler = "none"
    /\ user = NoUser
    /\ text = <<>>
    /\ args = <<>>
    /\ url = <<>>
    /\ post = NoPost
    /\ info = NoInfo
    /\ idx = 0
    /\ msg = "none"
    /\ err = "none"
    /\ sent = <<>>
    /\ trace = <<>>
    /\ queries = <<>>
    /\ limit = 0
    /\ escaped = FALSE
    /\ hist = <<>>

\* The gateway hands the next update to a handler.
CanDispatch == pc = "idle" /\ clock < MaxUpdates

\* reply_text/reply_photo/reply_video: the reply is delivered, or the call raises.
Deliver(replies, r, ok) == IF ok THEN Append(replies, r) ELSE replies

\* A command handler runs from dispatch to return in one step.
Command(h, u, a, q, lim, replies, esc) ==
    /\ CanDispatch
    /\ clock' = clock + 1
    /\ pc' = "idle"
    /\ handler' = h
    /\ user' = u
    /\ text' = <<>>
    /\ args' = a
    /\ url' = <<>>
    /\ post' = NoPost
    /\ info' = NoInfo
    /\ idx' = 0
    /\ msg' = "none"
    /\ err' = "none"
    /\ sent' = replies
    /\ trace' = <<>>
    /\ queries' = q
    /\ limit' = lim
    /\ escaped' = esc
    /\ UNCHANGED <<logs, hist>>

Denied == Reply("text", "denied", <<>>)

\* start
start ==
    \E u \in Users, sendOk \in BOOLEAN :
        Command("start", u, <<>>, <<>>, 0, Deliver(<<>>, Reply("text", "start", <<>>), sendOk),
                ~sendOk)

\* help_cmd: the admin commands are listed for admins only.
help_cmd ==
    \E u \in Users, sendOk \in BOOLEAN :
        Command("help", u, <<>>, <<>>, 0,
                Deliver(<<>>, Reply("text", "help",
                                    IF is_admin(u.id) THEN <<"admin">> ELSE <<>>), sendOk),
                ~sendOk)

\* stats_cmd: the totals and one line per top sender,
\* f"- {fname or uname or uid} ({uname or ''}) : {cnt}".
StatsLine(g) ==
    [name |-> IF g.first_name # "" THEN g.first_name
              ELSE IF g.username # "" THEN g.username
              ELSE UidStr(g.user_id),
     uname |-> g.username,
     cnt |-> g.cnt]

StatsText(st) ==
    [total |-> st.total, unique_users |-> st.unique_users,
     lines |-> { StatsLine(g) : g \in st.top }]

stats_cmd ==
    \E u \in Users, dbOk \in BOOLEAN, sendOk \in BOOLEAN :
        IF ~is_admin(u.id)
        THEN Command("stats", u, <<>>, <<>>, 0, Deliver(<<>>, Denied, sendOk), ~sendOk)
        ELSE IF ~dbOk
        THEN Command("stats", u, <<>>, <<"get_stats">>, 0, <<>>, TRUE)
        ELSE Command("stats", u, <<>>, <<"get_stats">>, 0,
                     Deliver(<<>>, Reply("text", "stats", <<StatsText(get_stats(logs))>>), sendOk),
                     ~sendOk)

\* logs_cmd: limit = 50; if context.args and context.args[0].isdigit():
\* limit = min(500, int(context.args[0])).
HasDigitArg(a) == a # <<>> /\ isdigit(a[1])

LogsLimit(a) ==
    IF HasDigitArg(a) THEN Min(MaxLogsLimit, int(a[1])) ELSE DefaultLogsLimit

\* f"[{created_at}] {fname or ''} ({uname or uid}) -> {link}"
LogLine(r) ==
    [created_at |-> r.created_at,
     fname |-> r.first_name,
     who |-> IF r.username # "" THEN r.username ELSE UidStr(r.user_id),
     link |-> r.link]

LogLines(rows) == [k \in 1..Len(rows) |-> LogLine(rows[k])]

logs_cmd ==
    \E u \in Users, a \in ArgLists, dbOk \in BOOLEAN, sendOk \in BOOLEAN :
        IF ~is_admin(u.id)
        THEN Command("logs", u, a, <<>>, 0, Deliver(<<>>, Denied, sendOk), ~sendOk)
        ELSE IF HasDigitArg(a) /\ IntRaises(a[1])
        THEN \* int() raises ValueError after limit = 50 was assigned
             Command("logs", u, a, <<>>, DefaultLogsLimit, <<>>, TRUE)
        ELSE IF ~dbOk
        THEN Command("logs", u, a, <<"get_logs">>, LogsLimit(a), <<>>, TRUE)
        ELSE LET rows == get_logs(logs, LogsLimit(a)) IN
             Command("logs", u, a, <<"get_logs">>, LogsLimit(a),
                     Deliver(<<>>, IF rows = <<>> THEN Reply("text", "no_logs", <<>>)
                                   ELSE Reply("text", "logs", LogLines(rows)), sendOk),
                     ~sendOk)

\* links_cmd
links_cmd ==
    \E u \in Users, dbOk \in BOOLEAN, sendOk \in BOOLEAN :
        IF ~is_admin(u.id)
        THEN Command("links", u, <<>>, <<>>, 0, Deliver(<<>>, Denied, sendOk), ~sendOk)
        ELSE IF ~dbOk
        THEN Command("links", u, <<>>, <<"get_links">>, 0, <<>>, TRUE)
        ELSE LET rows == get_links(logs, LinksLimit) IN
             Command("links", u, <<>>, <<"get_links">>, 0,
                     Deliver(<<>>, IF rows = <<>> THEN Reply("text", "no_links", <<>>)
                                   ELSE Reply("text", "links", rows), sendOk),
                     ~sendOk)


\* --------------------------------------------------------- handle_message
\* A faulty NextStage: the replies go out before the log write.
NextStageRepliesFirst(stage, i) ==
    CASE stage = "resolve" ->
            IF i.media_type = "album" /\ i.media_urls = <<>> THEN "caption" ELSE "media"
      [] stage = "media" -> "caption"
      [] stage = "caption" -> "log"
      [] stage = "log" -> "delete"
      [] stage = "delete" -> "idle"

\* The order of the statements of the try block: the position that follows
\* `stage` once its calls have returned.  An album without media URLs sends
\* no media reply.
NextStage(stage, i) ==
    CASE stage = "resolve" -> "log"
      [] stage = "log" ->
            IF i.media_type = "album" /\ i.media_urls = <<>> THEN "caption" ELSE "media"
      [] stage = "media" -> "caption"
      [] stage = "caption" -> "delete"
      [] stage = "delete" -> "idle"

\* One call inside the try block: it returns and control moves on, or it
\* raises e and control moves to the except clause.
Step(ev, ok, e, next) ==
    /\ trace' = Append(trace, Call(ev, ok))
    /\ err' = IF ok THEN err ELSE e
    /\ pc' = IF ok THEN next ELSE "except"
    /\ UNCHANGED <<clock, handler, user, text, args, url, limit, escaped>>

\* Lines 219-226: extract the URL; without one send the prompt and return,
\* with one send the "please wait" message (outside the try block).
handle_message ==
    \E u \in Users, t \in Texts, sendOk \in BOOLEAN :
        LET found == extract_url(Strip(t)) IN
        /\ CanDispatch
        /\ clock' = clock + 1
        /\ handler' = "message"
        /\ user' = u
        /\ text' = t
        /\ args' = <<>>
        /\ url' = found
        /\ post' = NoPost
        /\ info' = NoInfo
        /\ idx' = 0
        /\ err' = "none"
        /\ queries' = <<>>
        /\ limit' = 0
        /\ escaped' = ~sendOk
        /\ hist' = Append(hist, [uid |-> u.id, url |-> found,
                                 resolved |-> FALSE, written |-> FALSE])
        /\ IF found = <<>>
           THEN /\ sent' = Deliver(<<>>, Reply("text", "prompt", <<>>), sendOk)
                /\ trace' = <<Call("extract", TRUE), Call("prompt", sendOk)>>
                /\ msg' = "none"
                /\ pc' = "idle"
           ELSE /\ sent' = Deliver(<<>>, Reply("text", "wait", <<>>), sendOk)
                /\ trace' = <<Call("extract", TRUE), Call("wait", sendOk)>>
                /\ msg' = IF sendOk THEN "sent" ELSE "none"
                /\ pc' = IF sendOk THEN "resolve" ELSE "idle"
        /\ UNCHANGED logs

\* A faulty ResolveRaises: the submission is logged before it is resolved,
\* so a failed resolution leaves a row.
ResolveRaisesLogged ==
    /\ pc = "resolve"
    /\ Step("resolve", FALSE,
            IF get_shortcode_from_url(url) = <<>> THEN "shortcode" ELSE "instagram",
            "except")
    /\ logs' = add_log(logs, user.id, OrEmpty(user.username), OrEmpty(user.first_name),
                       url, "", clock)
    /\ UNCHANGED <<post, info, idx, msg, sent, queries, hist>>

\* Line 228: info = get_instagram_post_info(url).  It raises when the URL has
\* no shortcode or when the Instagram library raises; otherwise the library
\* returns some post.
ResolveRaises ==
    /\ pc = "resolve"
    /\ Step("resolve", FALSE,
            IF get_shortcode_from_url(url) = <<>> THEN "shortcode" ELSE "instagram",
            "except")
    /\ UNCHANGED <<logs, post, info, idx, msg, sent, queries, hist>>

ResolveReturns ==
    /\ pc = "resolve"
    /\ get_shortcode_from_url(url) # <<>>
    /\ \E p \in Posts :
        /\ post' = p
        /\ info' = get_instagram_post_info(p)
        /\ Step("resolve", TRUE, "none", NextStage("resolve", get_instagram_post_info(p)))
    /\ idx' = 1
    /\ hist' = [hist EXCEPT ![Len(hist)].resolved = TRUE]
    /\ UNCHANGED <<logs, msg, sent, queries>>

\* Line 230: add_log(user.id, user.username or "", user.first_name or "", url, "").
\* The INSERT is committed and add_log returns; or nothing is committed and it
\* raises; or the commit reaches the database and the call still raises
\* (the connection breaks before the answer, or in conn.close()).
AddLog ==
    /\ pc = "log"
    /\ \E committed \in BOOLEAN, returned \in BOOLEAN :
        /\ returned => committed
        /\ logs' = IF committed
                   THEN add_log(logs, user.id, OrEmpty(user.username),
                                OrEmpty(user.first_name), url, "", clock)
                   ELSE logs
        /\ hist' = IF committed THEN [hist EXCEPT ![Len(hist)].written = TRUE] ELSE hist
        /\ Step("add_log", returned, "database", NextStage("log", info))
    /\ queries' = Append(queries, "add_log")
    /\ UNCHANGED <<post, info, idx, msg, sent>>

\* Lines 238-249: one media reply.  photo and video send media_urls[0]; album
\* sends each URL in turn, as a video when it ends with .mp4 or .mov.
MediaReply(i, k) ==
    CASE i.media_type = "photo" -> Reply("photo", "media", <<i.media_urls[1]>>)
      [] i.media_type = "video" -> Reply("video", "media", <<i.media_urls[1]>>)
      [] i.media_type = "album" ->
            IF EndsWithVideoExt(i.media_urls[k])
            THEN Reply("video", "media", <<i.media_urls[k]>>)
            ELSE Reply("photo", "media", <<i.media_urls[k]>>)
      [] OTHER -> Reply("text", "not_found", <<>>)

SendMedia ==
    /\ pc = "media"
    /\ \E sendOk \in BOOLEAN :
        LET r == MediaReply(info, idx)
            last == info.media_type # "album" \/ idx >= Len(info.media_urls)
        IN /\ sent' = Deliver(sent, r, sendOk)
           /\ idx' = IF sendOk /\ ~last THEN idx + 1 ELSE idx
           /\ Step(IF r.kind = "text" THEN "reply_text" ELSE "reply_" \o r.kind,
                   sendOk, "telegram",
                   IF last THEN NextStage("media", info) ELSE "media")
    /\ UNCHANGED <<logs, post, info, msg, queries, hist>>

\* Line 251: reply_text(caption_text); the caption shows as a placeholder
\* when it is empty.
SendCaption ==
    /\ pc = "caption"
    /\ \E sendOk \in BOOLEAN :
        /\ sent' = Deliver(sent, Reply("text", "caption",
                                       <<IF info.caption # "" THEN info.caption ELSE "(none)">>),
                           sendOk)
        /\ Step("caption", sendOk, "telegram", NextStage("caption", info))
    /\ UNCHANGED <<logs, post, info, idx, msg, queries, hist>>

\* A faulty DeleteWait: the deletion stands after the try block, so its
\* exception is not caught.
DeleteWaitUncaught ==
    /\ pc = "delete"
    /\ \E ok \in BOOLEAN :
        /\ msg' = IF ok THEN "deleted" ELSE msg
        /\ trace' = Append(trace, Call("delete", ok))
        /\ err' = IF ok THEN err ELSE "telegram"
        /\ escaped' = ~ok
    /\ pc' = "idle"
    /\ UNCHANGED <<logs, clock, handler, user, text, args, url, limit, post, info, idx,
                   sent, queries, hist>>

\* Line 252: msg.delete().
DeleteWait ==
    /\ pc = "delete"
    /\ \E ok \in BOOLEAN :
        /\ msg' = IF ok THEN "deleted" ELSE msg
        /\ Step("delete", ok, "telegram", NextStage("delete", info))
    /\ UNCHANGED <<logs, post, info, idx, sent, queries, hist>>

\* A faulty Except: the first failure of a message starts the try block again.
ExceptRetry ==
    /\ pc = "except"
    /\ IF Len(SelectSeq(trace, LAMBDA c : c.ev = "resolve")) < 2
       THEN /\ pc' = "resolve"
            /\ UNCHANGED <<trace, msg>>
       ELSE \E ok \in BOOLEAN :
               /\ trace' = Append(trace, Call("edit", ok))
               /\ msg' = IF ok THEN "edited" ELSE msg
               /\ pc' = IF ok THEN "idle" ELSE "fallback"
    /\ UNCHANGED <<logs, clock, handler, user, text, args, url, post, info, idx, err, sent,
                   queries, limit, escaped, hist>>

\* Lines 254-256: except Exception as e: msg.edit_text(error text).
Except ==
    /\ pc = "except"
    /\ \E ok \in BOOLEAN :
        /\ trace' = Append(trace, Call("edit", ok))
        /\ msg' = IF ok THEN "edited" ELSE msg
        /\ pc' = IF ok THEN "idle" ELSE "fallback"
    /\ UNCHANGED <<logs, clock, handler, user, text, args, url, post, info, idx, err, sent,
                   queries, limit, escaped, hist>>

\* Lines 257-258: the edit raised: reply_text(error text); if that raises too,
\* the exception leaves the handler.
Fallback ==
    /\ pc = "fallback"
    /\ \E ok \in BOOLEAN :
        /\ trace' = Append(trace, Call("fallback", ok))
        /\ sent' = Deliver(sent, Reply("text", "error", <<err>>), ok)
        /\ escaped' = ~ok
    /\ pc' = "idle"
    /\ UNCHANGED <<logs, clock, handler, user, text, args, url, post, info, idx, msg, err,
                   queries, limit, hist>>

Next ==
    \/ start
    \/ help_cmd
    \/ stats_cmd
    \/ logs_cmd
    \/ links_cmd
    \/ handle_message
    \/ ResolveRaises
    \/ ResolveReturns
    \/ AddLog
    \/ SendMedia
    \/ SendCaption
    \/ DeleteWait
    \/ Except
    \/ Fallback

Spec == Init /\ [][Next]_vars


\* ============================================================ properties
\* Rows written during this run (earlier rows are stamped 0).
ThisRun == SelectSeq(logs, LAMBDA r : r.created_at > 0)

\* Rows written while the current update was handled.
RowsOfUpdate == SelectSeq(logs, LAMBDA r : r.created_at = clock /\ clock > 0)

RowKeys(rows) == [k \in 1..Len(rows) |-> <<rows[k].user_id, rows[k].link>>]

SubmissionKeys(subs) == [k \in 1..Len(subs) |-> <<subs[k].uid, subs[k].url>>]

Resolved(h) == h.resolved

Logged(h) == h.resolved /\ h.written

\* Calls of the current update, by name.
Calls(ev) == { k \in 1..Len(trace) : trace[k].ev = ev }

Called(ev, ok) == \E k \in Calls(ev) : trace[k].ok = ok

Returned == pc = "idle" /\ handler = "message"

\* C1 as stated: between updates the rows written by this run are, in order,
\* exactly the submissions whose resolution succeeded (also when the log
\* write itself failed).
C1_RowPerResolvedSubmission ==
    pc = "idle" => RowKeys(ThisRun) = SubmissionKeys(SelectSeq(hist, Resolved))

\* C1 amended: between updates the rows written by this run are, in order,
\* exactly the submissions whose resolution succeeded and whose INSERT was
\* committed; a submission without URL, with a failed resolution or with an
\* uncommitted INSERT has no row, and a later reply failure removes none.
C1_RowPerLoggedSubmission ==
    pc = "idle" => RowKeys(ThisRun) = SubmissionKeys(SelectSeq(hist, Logged))

\* C1 witness: two messages handled, the first not resolved, the second
\* resolved and logged with its caption reply failing afterwards.
C1_Witness ==
    /\ Returned
    /\ Len(hist) = 2
    /\ hist[1].url # <<>> /\ ~hist[1].resolved
    /\ hist[2].resolved /\ hist[2].written
    /\ Called("caption", FALSE)
    /\ Len(ThisRun) = 1

\* C2: every step keeps the existing rows as they are (so the row count
\* never decreases), and only the add_log step of handle_message adds one.
C2_AppendOnly ==
    [][/\ Len(logs') >= Len(logs)
       /\ SubSeq(logs', 1, Len(logs)) = logs
       /\ (logs' # logs => pc = "log" /\ handler = "message" /\ Len(logs') = Len(logs) + 1)]_vars

\* C2 witness: a command handler ran on a table that holds rows of an
\* earlier run and a row of this run.
C2_Witness ==
    /\ pc = "idle"
    /\ handler \in {"stats", "logs", "links"}
    /\ Len(ThisRun) = 1
    /\ Len(logs) = 3

\* Calls made inside the try block of handle_message.
TryCalls == {"resolve", "add_log", "reply_photo", "reply_video", "reply_text", "caption", "delete"}

WaitSent == handler = "message" /\ Called("wait", TRUE)

ErrorReply == Reply("text", "error", <<err>>)

\* C5 as stated: once the wait message is out, a handler that met a failure
\* returns with the wait message edited to the error text and with no
\* exception escaping.
C5_AlwaysEdited ==
    (Returned /\ WaitSent /\ err # "none") => (msg = "edited" /\ ~escaped)

\* C5 amended: once the wait message is out, every failure of a call in the
\* try block is caught and followed by an attempt to edit the wait message to
\* the error text; when that edit raises, the error text is sent as a new
\* reply instead; an exception leaves the handler only when that reply raises
\* as well.
C5_CaughtAndSurfaced ==
    WaitSent =>
        /\ \A k \in 1..Len(trace) :
              (trace[k].ev \in TryCalls /\ ~trace[k].ok) =>
                  /\ err # "none"
                  /\ IF k = Len(trace) THEN pc = "except" ELSE trace[k + 1].ev = "edit"
        /\ \A k \in Calls("edit") :
              IF trace[k].ok THEN msg = "edited" /\ k = Len(trace) /\ pc = "idle"
              ELSE IF k = Len(trace) THEN pc = "fallback"
              ELSE trace[k + 1].ev = "fallback"
        /\ \A k \in Calls("fallback") :
              /\ k = Len(trace)
              /\ pc = "idle"
              /\ IF trace[k].ok THEN sent[Len(sent)] = ErrorReply /\ ~escaped ELSE escaped
        /\ escaped => Called("edit", FALSE) /\ Called("fallback", FALSE)
        /\ (Returned /\ err # "none") =>
              \/ msg = "edited"
              \/ Called("edit", FALSE) /\ Called("fallback", TRUE)
              \/ Called("edit", FALSE) /\ Called("fallback", FALSE) /\ escaped
        /\ (Returned /\ err = "none") => (msg = "deleted" /\ ~escaped)

\* C5 witness: the deletion of the wait message raised, the edit raised too,
\* and the error text went out as a new reply.
C5_Witness ==
    /\ Returned
    /\ Called("delete", FALSE)
    /\ Called("edit", FALSE)
    /\ Called("fallback", TRUE)
    /\ sent[Len(sent)] = Reply("text", "error", <<"telegram">>)

\* Position of a call in the control flow of the spec.
Rank(ev) ==
    CASE ev = "extract" -> 1
      [] ev = "wait" -> 2
      [] ev = "resolve" -> 3
      [] ev = "add_log" -> 4
      [] ev \in {"reply_photo", "reply_video", "reply_text"} -> 5
      [] ev = "caption" -> 6
      [] OTHER -> 7

MediaSent == { k \in 1..Len(sent) : sent[k].what \in {"media", "not_found"} }

CaptionSent == { k \in 1..Len(sent) : sent[k].what = "caption" }

\* C6: while and after a text message is handled, its calls occur in the
\* order extraction, resolution, log write, media replies, caption reply;
\* a media or caption reply is out only after the row of this message is in
\* the table, and the row is written only after the resolver has returned;
\* a message handled to the end made every one of these calls.
C6_CallOrder ==
    handler = "message" =>
        /\ trace # <<>> /\ trace[1].ev = "extract"
        /\ \A j, k \in 1..Len(trace) :
              j < k => \/ Rank(trace[j].ev) < Rank(trace[k].ev)
                       \/ Rank(trace[j].ev) = 5 /\ Rank(trace[k].ev) = 5
                       \/ Rank(trace[k].ev) = 7
        /\ (MediaSent # {} \/ CaptionSent # {}) =>
              /\ Called("add_log", TRUE)
              /\ Len(RowsOfUpdate) = 1
        /\ Called("add_log", TRUE) \/ Called("add_log", FALSE) \/ RowsOfUpdate # <<>> =>
              Called("resolve", TRUE)
        /\ msg = "deleted" =>
              /\ \A k \in 1..Len(trace) : trace[k].ok
              /\ Called("resolve", TRUE) /\ Called("add_log", TRUE) /\ Called("caption", TRUE)
              /\ Cardinality(MediaSent) = Len(info.media_urls)
              /\ Cardinality(CaptionSent) = 1
              /\ \A m \in MediaSent, c \in CaptionSent : m < c

\* C6 witness: an album of three media handled to the end.
C6_Witness ==
    /\ Returned
    /\ msg = "deleted"
    /\ Cardinality(MediaSent) = 3
    /\ Len(RowsOfUpdate) = 1

\* C9: for one text message the resolver is called at most once and the log
\* is written at most once, whatever fails; once the error handling has begun
\* neither is called again.
C9_NoRetry ==
    handler = "message" =>
        /\ Cardinality(Calls("resolve")) <= 1
        /\ Cardinality(Calls("add_log")) <= 1
        /\ Len(RowsOfUpdate) <= 1
        /\ Len(queries) <= 1
        /\ \A e \in Calls("edit") \cup Calls("fallback") :
              \A k \in Calls("resolve") \cup Calls("add_log") : k < e
        /\ pc \in {"except", "fallback"} \/ (Returned /\ err # "none") =>
              \E k \in 1..Len(trace) : trace[k].ev \in TryCalls /\ ~trace[k].ok

\* C9 witness: the resolver raised, the error was shown, the handler ended.
C9_Witness ==
    /\ Returned
    /\ Called("resolve", FALSE)
    /\ msg = "edited"
    /\ RowsOfUpdate = <<>>

\* The text holds an HTTP(S) URL: a scheme followed by a non-blank character.
UrlStarts(t) ==
    { i \in 1..Len(t) :
        \E p \in {Len(HTTP), Len(HTTPS)} :
            /\ StartsAt(t, i, IF p = Len(HTTP) THEN HTTP ELSE HTTPS)
            /\ i + p <= Len(t)
            /\ ~IsSpace(t[i + p]) }

\* The first URL of a text that holds one: from the leftmost start to the
\* last character before the next blank.
FirstUrl(t) ==
    LET i == CHOOSE a \in UrlStarts(t) : \A b \in UrlStarts(t) : a <= b
        j == CHOOSE e \in i..Len(t) :
                /\ \A m \in i..e : ~IsSpace(t[m])
                /\ e = Len(t) \/ IsSpace(t[e + 1])
    IN SubSeq(t, i, j)

\* C10: a text without URL gets the prompt and nothing else (no wait
\* message, no resolver call, no row); a text with URLs has its first URL,
\* and no other, resolved and logged.
C10_FirstUrlOnly ==
    handler = "message" =>
        IF UrlStarts(text) = {}
        THEN /\ pc = "idle"
             /\ url = <<>>
             /\ \A k \in 1..Len(sent) : sent[k] = Reply("text", "prompt", <<>>)
             /\ \A k \in 1..Len(trace) : trace[k].ev \in {"extract", "prompt"}
             /\ msg = "none"
             /\ RowsOfUpdate = <<>>
             /\ queries = <<>>
        ELSE /\ url = FirstUrl(text)
             /\ \A k \in 1..Len(sent) : sent[k].what # "prompt"
             /\ Calls("prompt") = {}
             /\ \A k \in 1..Len(RowsOfUpdate) : RowsOfUpdate[k].link = FirstUrl(text)
             /\ hist[Len(hist)].url = FirstUrl(text)

\* C10 witness: after a message without URL got its prompt, a message with
\* two URLs was resolved and its first URL logged.
C10_Witness ==
    /\ Returned
    /\ Len(hist) = 2 /\ hist[1].url = <<>> /\ ~hist[1].resolved
    /\ Cardinality(UrlStarts(text)) = 2
    /\ Len(RowsOfUpdate) = 1
    /\ RowsOfUpdate[1].link = HTTPS \o <<"i", "/", "r", "/", "b", "?", "x">>

AdminCommand == pc = "idle" /\ handler \in {"stats", "logs", "links"}

QueryOf(h) == CASE h = "stats" -> "get_stats" [] h = "logs" -> "get_logs" [] h = "links" -> "get_links"

\* C3 as stated: /stats, /logs and /links read nothing and send nothing but
\* the denial text for a sender outside ADMIN_IDS, and execute their query
\* for a sender in ADMIN_IDS.
C3_AdminGate ==
    AdminCommand =>
        IF user.id \notin ADMIN_IDS
        THEN /\ queries = <<>>
             /\ \A k \in 1..Len(sent) : sent[k] = Denied
        ELSE queries = <<QueryOf(handler)>>

\* The half of C3 that does not depend on the argument of /logs: a sender
\* outside ADMIN_IDS causes no read and receives at most the denial text, and
\* a query is executed for senders in ADMIN_IDS only.
C3_NonAdminDenied ==
    AdminCommand =>
        /\ user.id \notin ADMIN_IDS =>
              /\ queries = <<>>
              /\ \A k \in 1..Len(sent) : sent[k] = Denied
        /\ queries # <<>> => user.id \in ADMIN_IDS /\ queries = <<QueryOf(handler)>>

\* The first argument is a decimal number.
IsDecimalNumber(a) == a # <<>> /\ \A i \in 1..Len(a) : a[i] \in DecimalDigits

\* The limit the spec gives /logs: 50 without a numeric first argument,
\* min(500, n) for the decimal number n.
ExpectedLimit(a) ==
    IF a # <<>> /\ IsDecimalNumber(a[1]) THEN Min(MaxLogsLimit, int(a[1])) ELSE DefaultLogsLimit

NewestRows(n) == [k \in 1..Min(n, Len(logs)) |-> LogLine(logs[Len(logs) + 1 - k])]

LogsAnswer(a) ==
    /\ queries = <<"get_logs">>
    /\ limit = ExpectedLimit(a)
    /\ limit <= MaxLogsLimit
    /\ \A k \in 1..Len(sent) :
          \/ sent[k].what = "logs" /\ sent[k].data = NewestRows(limit) /\ sent[k].data # <<>>
          \/ sent[k].what = "no_logs" /\ NewestRows(limit) = <<>>

\* C4 as stated: for an admin, /logs queries the newest L rows and replies
\* with them in descending id order, L being 50 without a numeric first
\* argument and min(500, n) for the decimal number n.
C4_LogsLimit ==
    (AdminCommand /\ handler = "logs" /\ user.id \in ADMIN_IDS) => LogsAnswer(args)

\* C4 for the arguments on which isdigit() and int() agree.
C4_LogsLimitDecimalArgs ==
    (AdminCommand /\ handler = "logs" /\ user.id \in ADMIN_IDS
        /\ ~(HasDigitArg(args) /\ IntRaises(args[1]))) => LogsAnswer(args)

\* C7 as stated: the row of a resolved submission holds the sender's id,
\* username and first name, the URL taken from the message, the media
\* identifier the resolver assigned, and the time of the write.
C7_RowRecordsSubmission ==
    (handler = "message" /\ RowsOfUpdate # <<>>) =>
        LET r == RowsOfUpdate[1] IN
        /\ r.user_id = user.id
        /\ r.username = OrEmpty(user.username)
        /\ r.first_name = user.first_name
        /\ r.link = FirstUrl(text)
        /\ r.created_at = clock
        /\ r.media_pk = post.pk

\* C7 without the media identifier.
C7_RowRecordsSender ==
    (handler = "message" /\ RowsOfUpdate # <<>>) =>
        LET r == RowsOfUpdate[1] IN
        /\ r.user_id = user.id
        /\ r.username = OrEmpty(user.username)
        /\ r.first_name = user.first_name
        /\ r.link = FirstUrl(text)
        /\ r.created_at = clock

\* The media replies the spec gives a resolved post.
ExpectedMedia(p, i) ==
    CASE i.media_type = "photo" -> <<Reply("photo", "media", <<i.media_urls[1]>>)>>
      [] i.media_type = "video" -> <<Reply("video", "media", <<i.media_urls[1]>>)>>
      [] i.media_type = "album" ->
            [k \in 1..Len(p.nodes) |->
                IF p.nodes[k].is_video
                THEN Reply("video", "media", <<p.nodes[k].video_url>>)
                ELSE Reply("photo", "media", <<p.nodes[k].display_url>>)]

IsMediaReply(r) == r.what \in {"media", "not_found"}

\* C8 as stated: when the media replies of a message are out, they are the
\* one photo reply of a photo, the one video reply of a video, or one reply
\* per album node in order, a video reply for a video node and a photo reply
\* for an image node; the tag is one of the three and "media not found" is
\* never sent.
C8_ReplyPerTag ==
    (handler = "message" /\ pc = "caption") =>
        /\ info.media_type \in {"photo", "video", "album"}
        /\ SelectSeq(sent, IsMediaReply) = ExpectedMedia(post, info)

\* C8 without the kind of the album replies: the tag is one of the three,
\* "media not found" is never sent, and the media URLs go out one reply each
\* in resolver order.
C8_ReplyPerUrl ==
    (handler = "message" /\ pc = "caption") =>
        /\ info.media_type \in {"photo", "video", "album"}
        /\ LET m == SelectSeq(sent, IsMediaReply) IN
           /\ Len(m) = Len(info.media_urls)
           /\ \A k \in 1..Len(m) :
                 /\ m[k].what = "media"
                 /\ m[k].data = <<info.media_urls[k]>>
                 /\ info.media_type = "photo" => m[k].kind = "photo"
                 /\ info.media_type = "video" => m[k].kind = "video"

=============================================================================
